---- MODULE Spec2Model ----
(***************************************************************************)
(* A model of jwskate's key components: SymmetricJwk (jwk/symetric.py),    *)
(* ECJwk (jwk/ec.py) and the encoding helpers of utils.py.                 *)
(*                                                                         *)
(* Byte strings are sequences of integers 0..255.  Base64url text is the   *)
(* sequence of the 6-bit alphabet indices of its characters.  A Python     *)
(* integer is its minimal big-endian base-256 numeral (no leading zero     *)
(* byte, <<>> for 0), since coordinates are far wider than a machine word. *)
(* The primitives of the `cryptography` package (HMAC, AES-GCM, AES-CCM,   *)
(* AES key wrap) are deterministic stand-ins that keep the package's       *)
(* argument checks, output lengths and exception types.                    *)
(***************************************************************************)
EXTENDS Integers, Sequences, FiniteSets, TLC

VARIABLES jwk, call

vars == <<jwk, call>>

(***************************************************************************)
(* Bounds of the exploration                                               *)
(***************************************************************************)
MaxDataLen == 1
NumFills == 1

(***************************************************************************)
(* Python values                                                           *)
(***************************************************************************)
None == "None"
NoneB == <<>>
Some(v) == <<v>>
IsNone(o) == Len(o) = 0
Get(o) == o[1]

Ok(v) == [ok |-> TRUE, val |-> v]
Raise(e, m) == [ok |-> FALSE, exc |-> e, msg |-> m]

Rep(n, b) == [i \in 1..n |-> b]
BoundedSeqs(S, n) == UNION {[1..k -> S] : k \in 0..n}
Attr(m, name) == IF name \in DOMAIN m THEN m[name] ELSE None

\* s[:-n] and s[-n:] for n > 0, as Python slices them
SliceHead(s, n) == IF n >= Len(s) THEN <<>> ELSE SubSeq(s, 1, Len(s) - n)
SliceTail(s, n) == IF n >= Len(s) THEN s ELSE SubSeq(s, Len(s) - n + 1, Len(s))

(***************************************************************************)
(* utils.py                                                                *)
(***************************************************************************)
b64u_encode(data) ==
    LET L == Len(data)
        n == (8 * L + 5) \div 6
        at(q) == IF q <= L THEN data[q] ELSE 0
    IN  [j \in 1..n |->
            LET off == (j - 1) * 6
                q == off \div 8 + 1
                r == off % 8
            IN  ((at(q) * 256 + at(q + 1)) \div (2 ^ (10 - r))) % 64]

\* one character more than a multiple of 4 cannot be decoded (binascii.Error)
b64u_decodable(text) == Len(text) % 4 # 1

b64u_decode(text) ==
    LET n == Len(text)
        L == (6 * n) \div 8
    IN  [i \in 1..L |->
            LET off == (i - 1) * 8
                q == off \div 6 + 1
                r == off % 6
            IN  ((text[q] * 64 + text[q + 1]) \div (2 ^ (4 - r))) % 256]

\* i.bit_length() + 7) // 8 of a numeral is its length
int_fits(i, length) == Len(i) <= length

int_to_bytes(i, length) == Rep(length - Len(i), 0) \o i

int_to_b64u(i, length) == b64u_encode(int_to_bytes(i, length))

LeadingZeros(b) ==
    CHOOSE k \in 0..Len(b) :
        /\ \A i \in 1..k : b[i] = 0
        /\ k = Len(b) \/ b[k + 1] # 0

int_from_bytes(b) == SubSeq(b, LeadingZeros(b) + 1, Len(b))

b64u_to_int(text) == int_from_bytes(b64u_decode(text))

(***************************************************************************)
(* The primitives of the `cryptography` package, as symetric.py calls them *)
(***************************************************************************)
RECURSIVE MixRange(_, _, _)
MixRange(s, lo, hi) ==
    IF lo > hi THEN 1
    ELSE IF lo = hi THEN s[lo] + 2
    ELSE LET mid == (lo + hi) \div 2
         IN  (MixRange(s, lo, mid) * 257 + MixRange(s, mid + 1, hi) * 3 + (hi - lo)) % 65521

Mix(h, s) == (h * 31 + MixRange(s, 1, Len(s)) * 7 + Len(s)) % 65521

Stretch(seed, n) == [j \in 1..n |-> (seed + j * (seed \div 256 + 1)) % 256]

digest_size(hashalg) ==
    CASE hashalg = "SHA256" -> 32
      [] hashalg = "SHA384" -> 48
      [] hashalg = "SHA512" -> 64

\* m = mac(key, hashalg); m.update(data); m.finalize()
HMAC(key, hashalg, data) ==
    Stretch(Mix(Mix(digest_size(hashalg), key), data), digest_size(hashalg))

aes_key_ok(key) == Len(key) \in {16, 24, 32}

aead_nonce_ok(cls, nonce) ==
    IF cls = "AESCCM" THEN Len(nonce) \in 7..13 ELSE Len(nonce) \in 8..128

aead_seed(cls, key, nonce) == Mix(Mix(IF cls = "AESCCM" THEN 1 ELSE 2, key), nonce)

aead_crypt(cls, key, nonce, data, sign) ==
    LET ks == Stretch(aead_seed(cls, key, nonce), Len(data))
    IN  [j \in 1..Len(data) |-> (data[j] + 256 + sign * ks[j]) % 256]

aead_tag(cls, key, nonce, aad, ct) ==
    Stretch(Mix(Mix(aead_seed(cls, key, nonce) + 7, aad), ct), 16)

\* alg_class(key).encrypt(iv, plaintext, aad): cyphertext followed by a 16-byte tag
aead_encrypt(cls, key, nonce, data, aad) ==
    IF ~aes_key_ok(key) THEN Raise("ValueError", "AES key must be 128, 192, or 256 bits")
    ELSE IF ~aead_nonce_ok(cls, nonce) THEN Raise("ValueError", "Nonce length")
    ELSE LET a == IF IsNone(aad) THEN <<>> ELSE Get(aad)
             ct == aead_crypt(cls, key, nonce, data, 1)
         IN  Ok(ct \o aead_tag(cls, key, nonce, a, ct))

\* alg_class(key).decrypt(iv, cyphertext_with_tag, aad)
aead_decrypt(cls, key, nonce, data, aad) ==
    IF ~aes_key_ok(key) THEN Raise("ValueError", "AES key must be 128, 192, or 256 bits")
    ELSE IF ~aead_nonce_ok(cls, nonce) THEN Raise("ValueError", "Nonce length")
    ELSE IF Len(data) < 16 THEN Raise("InvalidTag", "")
    ELSE LET a == IF IsNone(aad) THEN <<>> ELSE Get(aad)
             ct == SubSeq(data, 1, Len(data) - 16)
             tag == SubSeq(data, Len(data) - 15, Len(data))
         IN  IF tag # aead_tag(cls, key, nonce, a, ct) THEN Raise("InvalidTag", "")
             ELSE Ok(aead_crypt(cls, key, nonce, ct, -1))

kw_seed(wrapping_key) == Mix(3, wrapping_key)

kw_crypt(wrapping_key, data, sign) ==
    LET ks == Stretch(kw_seed(wrapping_key), Len(data))
    IN  [j \in 1..Len(data) |-> (data[j] + 256 + sign * ks[j]) % 256]

kw_check(wrapping_key, key) == Stretch(Mix(kw_seed(wrapping_key) + 11, key), 8)

\* keywrap.aes_key_wrap(wrapping_key, key_to_wrap)
aes_key_wrap(wrapping_key, key_to_wrap) ==
    IF ~aes_key_ok(wrapping_key)
    THEN Raise("ValueError", "The wrapping key must be a valid AES key length")
    ELSE IF Len(key_to_wrap) < 16
    THEN Raise("ValueError", "The key to wrap must be at least 16 bytes")
    ELSE IF Len(key_to_wrap) % 8 # 0
    THEN Raise("ValueError", "The key to wrap must be a multiple of 8 bytes")
    ELSE Ok(kw_check(wrapping_key, key_to_wrap) \o kw_crypt(wrapping_key, key_to_wrap, 1))

\* keywrap.aes_key_unwrap(wrapping_key, wrapped_key)
aes_key_unwrap(wrapping_key, wrapped_key) ==
    IF Len(wrapped_key) < 24 THEN Raise("InvalidUnwrap", "Must be at least 24 bytes")
    ELSE IF Len(wrapped_key) % 8 # 0
    THEN Raise("InvalidUnwrap", "The wrapped key must be a multiple of 8 bytes")
    ELSE IF ~aes_key_ok(wrapping_key)
    THEN Raise("ValueError", "The wrapping key must be a valid AES key length")
    ELSE LET body == SubSeq(wrapped_key, 9, Len(wrapped_key))
             key == kw_crypt(wrapping_key, body, -1)
         IN  IF SubSeq(wrapped_key, 1, 8) # kw_check(wrapping_key, key)
             THEN Raise("InvalidUnwrap", "")
             ELSE Ok(key)

(***************************************************************************)
(* jwk/symetric.py: the algorithm tables                                   *)
(***************************************************************************)
SIGNATURE_ALGORITHMS ==
    ("HS256" :> [mac |-> "HMAC", hashalg |-> "SHA256", min_key_size |-> 256]) @@
    ("HS384" :> [mac |-> "HMAC", hashalg |-> "SHA384", min_key_size |-> 384]) @@
    ("HS512" :> [mac |-> "HMAC", hashalg |-> "SHA512", min_key_size |-> 512])

KEY_MANAGEMENT_ALGORITHMS ==
    ("A128KW" :> [key_size |-> 128]) @@
    ("A192KW" :> [key_size |-> 192]) @@
    ("A256KW" :> [key_size |-> 256])

ENCRYPTION_ALGORITHMS ==
    ("A128CBC-HS256" :> [alg_class |-> "AESCCM", key_size |-> 128, iv_size |-> 96, tag_size |-> 16]) @@
    ("A192CBC-HS384" :> [alg_class |-> "AESCCM", key_size |-> 192, iv_size |-> 96, tag_size |-> 24]) @@
    ("A256CBC-HS512" :> [alg_class |-> "AESCCM", key_size |-> 256, iv_size |-> 96, tag_size |-> 32]) @@
    ("A128GCM" :> [alg_class |-> "AESGCM", key_size |-> 128, iv_size |-> 96, tag_size |-> 16]) @@
    ("A192GCM" :> [alg_class |-> "AESGCM", key_size |-> 192, iv_size |-> 96, tag_size |-> 16]) @@
    ("A256GCM" :> [alg_class |-> "AESGCM", key_size |-> 256, iv_size |-> 96, tag_size |-> 16])

(***************************************************************************)
(* The Jwk base and the algorithm resolution helper (jwk/base.py and       *)
(* jwk/alg.py), from sections 4.3, 4.4 and 6 of the specification          *)
(***************************************************************************)
supported_signing_algorithms == <<"HS256", "HS384", "HS512">>
supported_key_management_algorithms == <<"A128KW", "A192KW", "A256KW">>
supported_encryption_algorithms ==
    <<"A128CBC-HS256", "A192CBC-HS384", "A256CBC-HS512", "A128GCM", "A192GCM", "A256GCM">>

Range(s) == {s[i] : i \in 1..Len(s)}

get_alg(key_alg, alg, supported_algs) ==
    IF alg # None
    THEN IF alg \in Range(supported_algs) THEN Ok(alg)
         ELSE Raise("UnsupportedAlgorithm", "alg is not supported by this key")
    ELSE IF key_alg # None THEN Ok(key_alg)
    ELSE Raise("NoAlgorithmSpecified", "no alg")

get_algs(key_alg, alg, algs, supported_algs) ==
    IF alg # None
    THEN IF alg \in Range(supported_algs) THEN Ok(<<alg>>)
         ELSE Raise("UnsupportedAlgorithm", "alg is not supported by this key")
    ELSE IF ~IsNone(algs) THEN Ok(Get(algs))
    ELSE IF key_alg # None THEN Ok(<<key_alg>>)
    ELSE Ok(supported_algs)

(***************************************************************************)
(* jwk/symetric.py: SymmetricJwk                                           *)
(***************************************************************************)
NoParams == [n \in {} |-> None]

from_bytes(k, params) == [key |-> "oct", k |-> b64u_encode(k)] @@ params

\* secrets.token_bytes(n): one of the byte strings of length n
token_bytes(n) == {Rep(n, 17 * f + 3) : f \in 0..(NumFills - 1)}

generate(size, params) == {from_bytes(key, params) : key \in token_bytes(size)}

generate_for_alg(alg, params) ==
    IF alg \in DOMAIN SIGNATURE_ALGORITHMS
    THEN {Ok(j) : j \in generate(SIGNATURE_ALGORITHMS[alg].min_key_size,
                                 [alg |-> alg] @@ params)}
    ELSE IF alg \in DOMAIN ENCRYPTION_ALGORITHMS
    THEN {Ok(j) : j \in generate(ENCRYPTION_ALGORITHMS[alg].key_size,
                                 [alg |-> alg] @@ params)}
    ELSE {Raise("ValueError", "Unsupported alg")}

key(self) == b64u_decode(self.k)

key_size(self) == Len(key(self)) * 8

sign(self, data, alg) ==
    LET r == get_alg(Attr(self, "alg"), alg, supported_signing_algorithms)
    IN  IF ~r.ok THEN r
        ELSE IF r.val \notin DOMAIN SIGNATURE_ALGORITHMS
        THEN Raise("ValueError", "Unsupported signing alg")
        ELSE Ok(HMAC(key(self), SIGNATURE_ALGORITHMS[r.val].hashalg, data))

RECURSIVE verify_loop(_, _, _, _, _)
verify_loop(self, data, signature, algs, i) ==
    IF i > Len(algs) THEN Ok(FALSE)
    ELSE IF algs[i] \notin DOMAIN SIGNATURE_ALGORITHMS
    THEN Raise("ValueError", "Unsupported signing alg")
    ELSE IF signature = HMAC(key(self), SIGNATURE_ALGORITHMS[algs[i]].hashalg, data)
    THEN Ok(TRUE)
    ELSE verify_loop(self, data, signature, algs, i + 1)

\* verify that tries the first candidate only
verify_first_only(self, data, signature, alg, algs) ==
    LET r == get_algs(Attr(self, "alg"), alg, algs, supported_signing_algorithms)
    IN  IF ~r.ok THEN r ELSE verify_loop(self, data, signature, SubSeq(r.val, 1, 1), 1)

verify(self, data, signature, alg, algs) ==
    LET r == get_algs(Attr(self, "alg"), alg, algs, supported_signing_algorithms)
    IN  IF ~r.ok THEN r ELSE verify_loop(self, data, signature, r.val, 1)

\* a size check that accepts any key at least as large as required
key_size_at_least(self, required) == key_size(self) >= required

key_size_matches(self, required) == key_size(self) = required

encrypt(self, plaintext, aad, alg, iv) ==
    LET r == get_alg(Attr(self, "alg"), alg, supported_encryption_algorithms)
    IN  IF ~r.ok THEN {r}
        ELSE IF r.val \notin DOMAIN ENCRYPTION_ALGORITHMS THEN {Raise("KeyError", r.val)}
        ELSE LET e == ENCRYPTION_ALGORITHMS[r.val]
             IN  IF ~key_size_matches(self, e.key_size)
                 THEN {Raise("ValueError", "key size doesn't match the expected keysize")}
                 ELSE {LET p == aead_encrypt(e.alg_class, key(self), n, plaintext, aad)
                       IN  IF ~p.ok THEN p
                           ELSE Ok([cyphertext |-> SliceHead(p.val, e.tag_size),
                                    tag |-> SliceTail(p.val, e.tag_size),
                                    iv |-> n])
                       : n \in IF IsNone(iv) THEN token_bytes(e.iv_size) ELSE {Get(iv)}}

\* decrypt that reassembles the tag ahead of the cyphertext
decrypt_tag_first(self, cyphertext, tag, iv, aad, alg) ==
    LET r == get_alg(Attr(self, "alg"), alg, supported_encryption_algorithms)
    IN  IF ~r.ok THEN r
        ELSE IF r.val \notin DOMAIN ENCRYPTION_ALGORITHMS THEN Raise("KeyError", r.val)
        ELSE LET e == ENCRYPTION_ALGORITHMS[r.val]
             IN  IF ~key_size_matches(self, e.key_size)
                 THEN Raise("ValueError", "key size doesn't match the expected keysize")
                 ELSE aead_decrypt(e.alg_class, key(self), iv, tag \o cyphertext, aad)

decrypt(self, cyphertext, tag, iv, aad, alg) ==
    LET r == get_alg(Attr(self, "alg"), alg, supported_encryption_algorithms)
    IN  IF ~r.ok THEN r
        ELSE IF r.val \notin DOMAIN ENCRYPTION_ALGORITHMS THEN Raise("KeyError", r.val)
        ELSE LET e == ENCRYPTION_ALGORITHMS[r.val]
             IN  IF ~key_size_matches(self, e.key_size)
                 THEN Raise("ValueError", "key size doesn't match the expected keysize")
                 ELSE aead_decrypt(e.alg_class, key(self), iv, cyphertext \o tag, aad)

wrap_key(self, k, alg) ==
    LET r == get_alg(Attr(self, "alg"), alg, supported_key_management_algorithms)
    IN  IF ~r.ok THEN r
        ELSE IF r.val \notin DOMAIN KEY_MANAGEMENT_ALGORITHMS THEN Raise("KeyError", r.val)
        ELSE IF ~key_size_matches(self, KEY_MANAGEMENT_ALGORITHMS[r.val].key_size)
        THEN Raise("ValueError", "key size doesn't match the expected keysize")
        ELSE aes_key_wrap(key(self), k)

unwrap_key(self, cypherkey, alg) ==
    LET r == get_alg(Attr(self, "alg"), alg, supported_key_management_algorithms)
    IN  IF ~r.ok THEN r
        ELSE IF r.val \notin DOMAIN KEY_MANAGEMENT_ALGORITHMS THEN Raise("KeyError", r.val)
        ELSE IF ~key_size_matches(self, KEY_MANAGEMENT_ALGORITHMS[r.val].key_size)
        THEN Raise("ValueError", "key size doesn't match the expected keysize")
        ELSE aes_key_unwrap(key(self), cypherkey)

(***************************************************************************)
(* The inputs the callers draw from                                        *)
(***************************************************************************)
Data == BoundedSeqs({1, 2}, MaxDataLen)

KeyBytes == {Rep(16, 5), Rep(24, 5), Rep(32, 5), Rep(48, 5), Rep(64, 5), Rep(20, 5)}

KeyParams == {NoParams, [alg |-> "A128GCM"]}

GenerateSizes == {16, 32}

AllAlgs == DOMAIN SIGNATURE_ALGORITHMS \cup DOMAIN KEY_MANAGEMENT_ALGORITHMS
               \cup DOMAIN ENCRYPTION_ALGORITHMS

SignAlgArgs == {None, "HS256", "HS384", "HS512", "RS256"}

VerifyAlgsArgs ==
    {Some(<<"HS256", "HS384">>), Some(<<"HS512", "HS256">>),
     Some(<<"HS256", "RS256">>), Some(<<"RS256", "HS256">>)}

EncAlgArgs == {None, "RS256"} \cup DOMAIN ENCRYPTION_ALGORITHMS

KwAlgArgs == {None, "RS256"} \cup DOMAIN KEY_MANAGEMENT_ALGORITHMS

AadArgs == {NoneB, Some(<<9>>)}

IvArgs == {NoneB, Some(Rep(12, 1)), Some(Rep(5, 1))}

WrappedKeys == {Rep(16, 4), Rep(24, 4), Rep(8, 4), Rep(17, 4)}

Flip(s, i) == [s EXCEPT ![i] = (@ + 1) % 256]

\* a byte string, and the same with one byte changed, dropped or added
Tampers(t) ==
    {t, t \o <<0>>} \cup
    (IF Len(t) = 0 THEN {}
     ELSE {Flip(t, 1), Flip(t, Len(t)), SubSeq(t, 1, Len(t) - 1)})

\* a byte string, and the same with one byte changed
Flips(t) == {t, Flip(t, 1), Flip(t, Len(t))}

Signatures(self, data) ==
    UNION {Flips(HMAC(key(self), SIGNATURE_ALGORITHMS[a].hashalg, data))
           : a \in DOMAIN SIGNATURE_ALGORITHMS}

(***************************************************************************)
(* The callers of a SymmetricJwk.  `jwk` is the key in hand; `call` holds  *)
(* the last call with its arguments and outcome until the caller takes it  *)
(* (Return).                                                               *)
(***************************************************************************)
Idle == call.op = "idle"

Init ==
    /\ jwk = from_bytes(Rep(16, 5), NoParams)
    /\ call = [op |-> "idle"]

FromBytes(k, params) ==
    /\ jwk' = from_bytes(k, params)
    /\ call' = [op |-> "from_bytes", res |-> Ok(params)]

Generate(size) ==
    /\ \E j \in generate(size, NoParams) :
          /\ jwk' = j
          /\ call' = [op |-> "generate", size |-> size, res |-> Ok(NoParams)]

GenerateForAlg(alg) ==
    /\ \E r \in generate_for_alg(alg, NoParams) :
          /\ jwk' = IF r.ok THEN r.val ELSE jwk
          /\ call' = [op |-> "generate_for_alg", alg |-> alg,
                      res |-> IF r.ok THEN Ok(NoParams) ELSE r]

Sign(data, alg) ==
    /\ call' = [op |-> "sign", data |-> data, alg |-> alg, res |-> sign(jwk, data, alg)]
    /\ UNCHANGED jwk

Verify(data, signature, alg, algs) ==
    /\ call' = [op |-> "verify", data |-> data, signature |-> signature,
                alg |-> alg, algs |-> algs,
                res |-> verify(jwk, data, signature, alg, algs)]
    /\ UNCHANGED jwk

Encrypt(plaintext, aad, alg, iv) ==
    /\ \E r \in encrypt(jwk, plaintext, aad, alg, iv) :
          call' = [op |-> "encrypt", plaintext |-> plaintext, aad |-> aad,
                   alg |-> alg, iv |-> iv, res |-> r]
    /\ UNCHANGED jwk

\* `of` is the encrypt call whose output is being decrypted, if any
Decrypt(cyphertext, tag, iv, aad, alg, of) ==
    /\ call' = [op |-> "decrypt", cyphertext |-> cyphertext, tag |-> tag, iv |-> iv,
                aad |-> aad, alg |-> alg, of |-> of,
                res |-> decrypt(jwk, cyphertext, tag, iv, aad, alg)]
    /\ UNCHANGED jwk

WrapKey(k, alg) ==
    /\ call' = [op |-> "wrap_key", key |-> k, alg |-> alg, res |-> wrap_key(jwk, k, alg)]
    /\ UNCHANGED jwk

\* `of` is the wrap_key call whose output is being unwrapped, if any
UnwrapKey(cypherkey, alg, of) ==
    /\ call' = [op |-> "unwrap_key", cypherkey |-> cypherkey, alg |-> alg, of |-> of,
                res |-> unwrap_key(jwk, cypherkey, alg)]
    /\ UNCHANGED jwk

Return ==
    /\ ~Idle
    /\ call' = [op |-> "idle"]
    /\ UNCHANGED jwk

Next ==
    \/ Idle /\ \E k \in KeyBytes, params \in KeyParams : FromBytes(k, params)
    \/ Idle /\ \E size \in GenerateSizes : Generate(size)
    \/ Idle /\ \E alg \in AllAlgs \cup {"RS256"} : GenerateForAlg(alg)
    \/ Idle /\ \E data \in Data, alg \in SignAlgArgs : Sign(data, alg)
    \/ Idle /\ \E data \in Data, alg \in SignAlgArgs :
          \E signature \in Signatures(jwk, data) : Verify(data, signature, alg, NoneB)
    \/ Idle /\ \E data \in Data, algs \in VerifyAlgsArgs :
          \E signature \in Signatures(jwk, data) : Verify(data, signature, None, algs)
    \/ Idle /\ \E plaintext \in Data, aad \in AadArgs, alg \in EncAlgArgs, iv \in IvArgs :
          Encrypt(plaintext, aad, alg, iv)
    \/ /\ call.op = "encrypt" /\ call.res.ok
       /\ \E tag \in Tampers(call.res.val.tag) :
             Decrypt(call.res.val.cyphertext, tag, call.res.val.iv, call.aad, call.alg, <<call>>)
    \/ Idle /\ \E cyphertext \in Data, alg \in EncAlgArgs :
          Decrypt(cyphertext, Rep(16, 0), Rep(12, 1), NoneB, alg, <<>>)
    \/ Idle /\ \E k \in WrappedKeys, alg \in KwAlgArgs : WrapKey(k, alg)
    \/ /\ call.op = "wrap_key" /\ call.res.ok
       /\ \E cypherkey \in Tampers(call.res.val) : UnwrapKey(cypherkey, call.alg, <<call>>)
    \/ Idle /\ \E cypherkey \in {Rep(24, 0), Rep(8, 0)}, alg \in KwAlgArgs :
          UnwrapKey(cypherkey, alg, <<>>)
    \/ Return

Spec == Init /\ [][Next]_vars

(***************************************************************************)
(* Properties of SymmetricJwk                                              *)
(***************************************************************************)
KeySizeMismatch == Raise("ValueError", "key size doesn't match the expected keysize")

\* C1: every cryptographic operation (sign, verify, encrypt, decrypt, wrap_key,
\* unwrap_key) fails when the key size its algorithm's table entry requires
\* differs from the key's key_size.
C1_EveryOperationChecksKeySize ==
    /\ call.op \in {"sign", "verify"} /\ call.alg \in DOMAIN SIGNATURE_ALGORITHMS
           /\ SIGNATURE_ALGORITHMS[call.alg].min_key_size # key_size(jwk)
       => ~call.res.ok
    /\ call.op \in {"encrypt", "decrypt"} /\ call.alg \in DOMAIN ENCRYPTION_ALGORITHMS
           /\ ENCRYPTION_ALGORITHMS[call.alg].key_size # key_size(jwk)
       => ~call.res.ok
    /\ call.op \in {"wrap_key", "unwrap_key"} /\ call.alg \in DOMAIN KEY_MANAGEMENT_ALGORITHMS
           /\ KEY_MANAGEMENT_ALGORITHMS[call.alg].key_size # key_size(jwk)
       => ~call.res.ok

\* C2: generate(n) returns a key of n bits, and generate_for_alg(A) a key that
\* declares alg A and has the key size the signing or AEAD table lists for A.
C2_GeneratedKeySize ==
    /\ call.op = "generate" => key_size(jwk) = call.size
    /\ call.op = "generate_for_alg" /\ call.alg \in DOMAIN SIGNATURE_ALGORITHMS
       => /\ call.res.ok
          /\ Attr(jwk, "alg") = call.alg
          /\ key_size(jwk) = SIGNATURE_ALGORITHMS[call.alg].min_key_size
    /\ call.op = "generate_for_alg" /\ call.alg \in DOMAIN ENCRYPTION_ALGORITHMS
       => /\ call.res.ok
          /\ Attr(jwk, "alg") = call.alg
          /\ key_size(jwk) = ENCRYPTION_ALGORITHMS[call.alg].key_size

\* the candidate i of a verify call is a signing algorithm whose MAC of the data,
\* as sign computes it, is the signature presented
C3_Matches(cands, i) ==
    /\ cands[i] \in DOMAIN SIGNATURE_ALGORITHMS
    /\ call.signature = sign(jwk, call.data, cands[i]).val

\* C3: verify(data, signature, alg=A) is true exactly when signature equals
\* sign(data, alg=A), so false for a valid signature with one byte changed; with
\* several candidates it is true at the first candidate whose MAC matches and
\* false when all of them are exhausted.
C3_VerifyIffSignature ==
    call.op = "verify" =>
        /\ call.alg \in DOMAIN SIGNATURE_ALGORITHMS
           => call.res = Ok(call.signature = sign(jwk, call.data, call.alg).val)
        /\ call.alg = None /\ ~IsNone(call.algs)
           => LET cands == Get(call.algs)
              IN  /\ \A i \in 1..Len(cands) :
                        /\ C3_Matches(cands, i)
                        /\ \A j \in 1..(i - 1) : cands[j] \in DOMAIN SIGNATURE_ALGORITHMS
                        => call.res = Ok(TRUE)
                  /\ (\A i \in 1..Len(cands) :
                        cands[i] \in DOMAIN SIGNATURE_ALGORITHMS /\ ~C3_Matches(cands, i))
                     => call.res = Ok(FALSE)

\* a verify call over two candidates that succeeded at the second one
C3_Witness ==
    /\ call.op = "verify" /\ call.alg = None /\ ~IsNone(call.algs)
    /\ ~C3_Matches(Get(call.algs), 1) /\ C3_Matches(Get(call.algs), 2)
    /\ call.res = Ok(TRUE)

\* C4: decrypting what encrypt returned (IV supplied or generated), with the
\* same key, aad and algorithm, returns the plaintext; with another tag it
\* fails with an authentication failure.
C4_DecryptInvertsEncrypt ==
    call.op = "decrypt" /\ ~IsNone(call.of) =>
        LET e == Get(call.of)
        IN  IF call.tag = e.res.val.tag
            THEN call.res = Ok(e.plaintext)
            ELSE call.res = Raise("InvalidTag", "")

\* a non-empty plaintext recovered from an encryption under a generated IV
C4_Witness ==
    /\ call.op = "decrypt" /\ ~IsNone(call.of)
    /\ IsNone(Get(call.of).iv) /\ Len(Get(call.of).plaintext) > 0
    /\ call.tag = Get(call.of).res.val.tag
    /\ call.res = Ok(Get(call.of).plaintext)

\* C5: with a key of the size A128KW/A192KW/A256KW requires, unwrap_key gives
\* back the bytes wrap_key wrapped; with a key of another size both fail with
\* the key size mismatch raised ahead of the AES key wrap primitive.
C5_WrapUnwrap ==
    /\ call.op \in {"wrap_key", "unwrap_key"} /\ call.alg \in DOMAIN KEY_MANAGEMENT_ALGORITHMS
           /\ KEY_MANAGEMENT_ALGORITHMS[call.alg].key_size # key_size(jwk)
       => call.res = KeySizeMismatch
    /\ call.op = "unwrap_key" /\ ~IsNone(call.of)
           /\ call.cypherkey = Get(call.of).res.val
       => call.res = Ok(Get(call.of).key)

\* a wrapped key unwrapped to the original bytes
C5_Witness ==
    /\ call.op = "unwrap_key" /\ ~IsNone(call.of)
    /\ call.alg \in DOMAIN KEY_MANAGEMENT_ALGORITHMS
    /\ call.cypherkey = Get(call.of).res.val
    /\ call.res = Ok(Get(call.of).key)

\* C10: an unsupported-algorithm failure of sign/verify is never reported as the
\* same error kind as the key size mismatch of encrypt, nor as the
\* authentication failure of decrypt.
C10_DistinctErrorKinds ==
    call.op \in {"sign", "verify"} /\ ~call.res.ok
        /\ call.res.msg = "Unsupported signing alg"
    => \A alg \in DOMAIN ENCRYPTION_ALGORITHMS :
          \A r \in encrypt(jwk, <<>>, NoneB, alg, Some(Rep(12, 1))) :
              /\ r = KeySizeMismatch => r.exc # call.res.exc
              /\ call.res.exc # "InvalidTag"

\* C11: on a key of the matching size, encrypt without an IV returns a fresh IV
\* of the algorithm's 96 bits (12 bytes); a supplied IV is returned unchanged;
\* cyphertext and tag are the primitive's output split at its length minus the
\* declared tag size.
C11_EncryptIvAndSplit ==
    call.op = "encrypt" /\ call.alg \in DOMAIN ENCRYPTION_ALGORITHMS
        /\ ENCRYPTION_ALGORITHMS[call.alg].key_size = key_size(jwk)
    => /\ IsNone(call.iv) => call.res.ok /\ Len(call.res.val.iv) * 8 = 96
       /\ ~IsNone(call.iv) /\ call.res.ok => call.res.val.iv = Get(call.iv)
       /\ call.res.ok
          => LET e == ENCRYPTION_ALGORITHMS[call.alg]
                 out == aead_encrypt(e.alg_class, key(jwk), call.res.val.iv,
                                     call.plaintext, call.aad).val
             IN  /\ call.res.val.cyphertext \o call.res.val.tag = out
                 /\ Len(call.res.val.tag) = e.tag_size
                 /\ Len(call.res.val.cyphertext) = Len(out) - e.tag_size

(***************************************************************************)
(* jwskate.jwa: the curves and the EC algorithms that jwk/ec.py imports,   *)
(* from sections 3, 4.1 and 4.2 of the specification                       *)
(***************************************************************************)
P_256 == [name |-> "P-256", coordinate_size |-> 32]
P_384 == [name |-> "P-384", coordinate_size |-> 48]
P_521 == [name |-> "P-521", coordinate_size |-> 66]
secp256k1 == [name |-> "secp256k1", coordinate_size |-> 32]

ES256 == [name |-> "ES256", curve |-> P_256]
ES384 == [name |-> "ES384", curve |-> P_384]
ES512 == [name |-> "ES512", curve |-> P_521]
ES256K == [name |-> "ES256K", curve |-> secp256k1]

EcdhEs == [name |-> "ECDH-ES"]
EcdhEs_A128KW == [name |-> "ECDH-ES+A128KW"]
EcdhEs_A192KW == [name |-> "ECDH-ES+A192KW"]
EcdhEs_A256KW == [name |-> "ECDH-ES+A256KW"]

(***************************************************************************)
(* jwk/ec.py: ECJwk.  A parameter value is a Python str or a BinaPy (bytes)*)
(* object holding base64url text.                                          *)
(***************************************************************************)
Str(text) == [py |-> "str", text |-> text]
BinaPy(text) == [py |-> "BinaPy", text |-> text]

\* the tables in their declared order, and by name
CurveList == <<P_256, P_384, P_521, secp256k1>>
CURVES == [n \in {CurveList[i].name : i \in 1..Len(CurveList)} |->
              CHOOSE c \in Range(CurveList) : c.name = n]

EC_SignatureAlgorithmList == <<ES256, ES384, ES512, ES256K>>
EC_SIGNATURE_ALGORITHMS ==
    [n \in {EC_SignatureAlgorithmList[i].name : i \in 1..Len(EC_SignatureAlgorithmList)} |->
        CHOOSE a \in Range(EC_SignatureAlgorithmList) : a.name = n]

EC_KeyManagementAlgorithmList == <<EcdhEs, EcdhEs_A128KW, EcdhEs_A192KW, EcdhEs_A256KW>>

\* Jwk._validate of the base: the required public parameters are present and
\* every b64u parameter present can be decoded
Jwk_validate(self) ==
    IF ~({"x", "y"} \subseteq DOMAIN self)
    THEN Raise("InvalidJwk", "a required parameter is missing")
    ELSE IF \E n \in {"x", "y", "d"} \cap DOMAIN self : ~b64u_decodable(self[n].text)
    THEN Raise("InvalidJwk", "a parameter is not base64url")
    ELSE Ok(self)

\* _validate that runs the base validation ahead of the curve check
EC_validate_base_first(self) ==
    LET r == Jwk_validate(self)
    IN  IF ~r.ok THEN r
        ELSE IF Attr(self, "crv") \notin DOMAIN CURVES
        THEN Raise("UnsupportedEllipticCurve", Attr(self, "crv"))
        ELSE r

EC_validate(self) ==
    IF Attr(self, "crv") \notin DOMAIN CURVES
    THEN Raise("UnsupportedEllipticCurve", Attr(self, "crv"))
    ELSE Jwk_validate(self)

\* cls(params): the mapping is kept as given and validated
ECJwk(params) == EC_validate(params)

is_private(self) == "d" \in DOMAIN self

get_curve(crv) ==
    IF crv \in DOMAIN CURVES THEN Ok(CURVES[crv]) ELSE Raise("UnsupportedEllipticCurve", crv)

curve(self) == get_curve(Attr(self, "crv"))

\* BinaPy.from_int(i, length).encode_to("b64u")
from_int_b64u(i, length) ==
    IF ~int_fits(i, length) THEN Raise("OverflowError", "int too big to convert")
    ELSE Ok(int_to_b64u(i, length))

public(crv, x, y) ==
    LET c == get_curve(crv)
        coord_size == c.val.coordinate_size
        ex == from_int_b64u(x, coord_size)
        ey == from_int_b64u(y, coord_size)
    IN  IF ~c.ok THEN c
        ELSE IF ~ex.ok THEN ex
        ELSE IF ~ey.ok THEN ey
        ELSE ECJwk([key |-> "EC", crv |-> crv, x |-> BinaPy(ex.val), y |-> BinaPy(ey.val)])

\* private() that encodes each integer on as few bytes as it needs
private_unpadded(crv, x, y, d) ==
    LET c == get_curve(crv)
    IN  IF ~c.ok THEN c
        ELSE ECJwk([kty |-> "EC", crv |-> crv, x |-> Str(int_to_b64u(x, Len(x))),
                    y |-> Str(int_to_b64u(y, Len(y))), d |-> Str(int_to_b64u(d, Len(d)))])

private(crv, x, y, d) ==
    LET c == get_curve(crv)
        coord_size == c.val.coordinate_size
        ex == from_int_b64u(x, coord_size)
        ey == from_int_b64u(y, coord_size)
        ed == from_int_b64u(d, coord_size)
    IN  IF ~c.ok THEN c
        ELSE IF ~ex.ok THEN ex
        ELSE IF ~ey.ok THEN ey
        ELSE IF ~ed.ok THEN ed
        ELSE ECJwk([kty |-> "EC", crv |-> crv, x |-> Str(ex.val), y |-> Str(ey.val),
                    d |-> Str(ed.val)])

coordinate_size(self) == curve(self).val.coordinate_size

\* EllipticCurve.generate() of jwskate.jwa: the x, y and d of one of the key
\* pairs of the curve, each within its coordinate size
curve_generate(c) ==
    {<<(<<1>> \o Rep(c.coordinate_size - 1, 17 * f + 3)),
       (<<1>> \o Rep(c.coordinate_size - 1, 17 * f + 5)),
       (<<1>> \o Rep(c.coordinate_size - 2, 17 * f + 7))>> : f \in 0..(NumFills - 1)}

EC_generate(crv) ==
    LET c == get_curve(crv)
    IN  IF ~c.ok THEN {c}
        ELSE {private(crv, xyd[1], xyd[2], xyd[3]) : xyd \in curve_generate(c.val)}

\* BinaPy(value).decode_from("b64u").to_int()
b64u_param_to_int(self, name) ==
    IF name \notin DOMAIN self THEN Raise("TypeError", "the parameter is missing")
    ELSE IF ~b64u_decodable(self[name].text) THEN Raise("binascii.Error", "")
    ELSE Ok(b64u_to_int(self[name].text))

x_coordinate(self) == b64u_param_to_int(self, "x")
y_coordinate(self) == b64u_param_to_int(self, "y")
ecc_private_key(self) == b64u_param_to_int(self, "d")

\* a filter on the coordinate size in place of the curve
EC_signing_algorithms_by_size(self) ==
    LET Supported(alg) == alg.curve.coordinate_size = curve(self).val.coordinate_size
        names(algs) == [i \in 1..Len(algs) |-> algs[i].name]
    IN  names(SelectSeq(EC_SignatureAlgorithmList, Supported))

EC_supported_signing_algorithms(self) ==
    LET Supported(alg) == alg.curve = curve(self).val
        names(algs) == [i \in 1..Len(algs) |-> algs[i].name]
    IN  names(SelectSeq(EC_SignatureAlgorithmList, Supported))

EC_supported_key_management_algorithms(self) ==
    [i \in 1..Len(EC_KeyManagementAlgorithmList) |-> EC_KeyManagementAlgorithmList[i].name]

(***************************************************************************)
(* The callers of ECJwk: `jwk` is the EC key in hand                       *)
(***************************************************************************)
CurveArgs == {"P-256", "P-384", "P-521", "secp256k1", "X-999"}

\* 0, 1, 2^256 - 1, 2^256 and 2^528 - 1
IntArgs == {<<>>, <<1>>, Rep(32, 255), <<1>> \o Rep(32, 0), Rep(66, 255)}

YArgs == {<<2>>, Rep(66, 255)}

\* 32 bytes, 1 byte, 33 bytes, and text that is not base64url
XTextArgs == {int_to_b64u(<<1>>, 32), b64u_encode(<<1>>), b64u_encode(Rep(33, 1)),
              <<0, 0, 0, 0, 0>>}

YTextArgs == {int_to_b64u(<<2>>, 32), int_to_b64u(<<2>>, 48)}

DTextArgs == {int_to_b64u(<<3>>, 32), b64u_encode(<<3>>)}

PublicMappings ==
    {[kty |-> "EC", crv |-> c, x |-> Str(tx), y |-> Str(ty)] :
        c \in {"P-256", "P-384", "X-999"}, tx \in XTextArgs, ty \in YTextArgs}

LoadMappings ==
    PublicMappings
    \cup {m @@ [d |-> Str(td)] : m \in PublicMappings, td \in DTextArgs}
    \cup {[kty |-> "EC", x |-> Str(tx)] : tx \in XTextArgs}
    \cup {[kty |-> "EC", crv |-> c] : c \in {"P-256", "X-999"}}

ECInit ==
    /\ jwk = [kty |-> "EC", crv |-> "P-256", x |-> Str(int_to_b64u(<<1>>, 32)),
              y |-> Str(int_to_b64u(<<2>>, 32))]
    /\ call = [op |-> "idle"]

Load(params) ==
    LET r == ECJwk(params)
    IN  /\ jwk' = IF r.ok THEN r.val ELSE jwk
        /\ call' = [op |-> "load", params |-> params, res |-> r]

Public(crv, x, y) ==
    LET r == public(crv, x, y)
    IN  /\ jwk' = IF r.ok THEN r.val ELSE jwk
        /\ call' = [op |-> "public", crv |-> crv, x |-> x, y |-> y, res |-> r]

Private(crv, x, y, d) ==
    LET r == private(crv, x, y, d)
    IN  /\ jwk' = IF r.ok THEN r.val ELSE jwk
        /\ call' = [op |-> "private", crv |-> crv, x |-> x, y |-> y, d |-> d, res |-> r]

ECGenerate(crv) ==
    \E r \in EC_generate(crv) :
        /\ jwk' = IF r.ok THEN r.val ELSE jwk
        /\ call' = [op |-> "ec_generate", crv |-> crv, res |-> r]

GetCurve(crv) ==
    /\ call' = [op |-> "get_curve", crv |-> crv, res |-> get_curve(crv)]
    /\ UNCHANGED jwk

Coordinates ==
    /\ call' = [op |-> "coordinates", res |-> Ok(<<>>),
                x |-> x_coordinate(jwk), y |-> y_coordinate(jwk), d |-> ecc_private_key(jwk)]
    /\ UNCHANGED jwk

SupportedAlgorithms ==
    /\ call' = [op |-> "supported_algorithms", res |-> Ok(<<>>),
                signing |-> EC_supported_signing_algorithms(jwk),
                key_management |-> EC_supported_key_management_algorithms(jwk)]
    /\ UNCHANGED jwk

ECNext ==
    \/ Idle /\ \E params \in LoadMappings : Load(params)
    \/ Idle /\ \E crv \in CurveArgs, x \in IntArgs, y \in YArgs : Public(crv, x, y)
    \/ Idle /\ \E crv \in CurveArgs, x \in IntArgs, y \in YArgs, d \in IntArgs :
          Private(crv, x, y, d)
    \/ Idle /\ \E crv \in CurveArgs \cup {None} : ECGenerate(crv)
    \/ Idle /\ \E crv \in CurveArgs \cup {None} : GetCurve(crv)
    \/ Idle /\ Coordinates
    \/ Idle /\ SupportedAlgorithms
    \/ Return

SpecEC == ECInit /\ [][ECNext]_vars

(***************************************************************************)
(* Properties of ECJwk                                                     *)
(***************************************************************************)
\* the bytes a parameter of the key in hand decodes to
ParamBytes(name) == b64u_decode(jwk[name].text)

\* C6: private(C, x, y, d) with x, y, d that fit C's coordinate size gives a
\* private key whose x, y and d each encode exactly coordinate_size(C) bytes and
\* whose accessors return exactly x, y and d.
C6_PrivateRoundTrip ==
    call.op = "private" /\ call.crv \in DOMAIN CURVES
        /\ (\A i \in {call.x, call.y, call.d} :
               int_fits(i, CURVES[call.crv].coordinate_size))
    => /\ call.res.ok /\ jwk = call.res.val
       /\ is_private(jwk)
       /\ \A n \in {"x", "y", "d"} :
             /\ b64u_decodable(jwk[n].text)
             /\ Len(ParamBytes(n)) = CURVES[call.crv].coordinate_size
       /\ ParamBytes("x") = Rep(CURVES[call.crv].coordinate_size - Len(call.x), 0) \o call.x
       /\ x_coordinate(jwk) = Ok(call.x)
       /\ y_coordinate(jwk) = Ok(call.y)
       /\ ecc_private_key(jwk) = Ok(call.d)

\* a P-521 private key made of 2^256, 2 and 0: narrower than the 66 bytes
C6_Witness ==
    /\ call.op = "private" /\ call.crv = "P-521" /\ call.res.ok
    /\ call.x = <<1>> \o Rep(32, 0) /\ call.d = <<>>
    /\ x_coordinate(jwk) = Ok(call.x) /\ ecc_private_key(jwk) = Ok(<<>>)
    /\ Len(ParamBytes("d")) = 66

\* C7: public(C, x, y) with x, y that fit builds a valid public key: kty "EC",
\* crv C, x and y in the text form private() produces, no d, not private, and
\* the accessors return x and y.
C7_PublicKey ==
    call.op = "public" /\ call.crv \in DOMAIN CURVES
        /\ (\A i \in {call.x, call.y} : int_fits(i, CURVES[call.crv].coordinate_size))
    => /\ call.res.ok /\ jwk = call.res.val
       /\ Attr(jwk, "kty") = "EC"
       /\ jwk.crv = call.crv
       /\ jwk.x = Str(int_to_b64u(call.x, CURVES[call.crv].coordinate_size))
       /\ jwk.y = Str(int_to_b64u(call.y, CURVES[call.crv].coordinate_size))
       /\ "d" \notin DOMAIN jwk /\ ~is_private(jwk)
       /\ x_coordinate(jwk) = Ok(call.x)
       /\ y_coordinate(jwk) = Ok(call.y)

\* C8: a key with an x, y or d that decodes to a number of bytes other than its
\* curve's coordinate size is rejected: it is not constructed, or the accessor
\* of that parameter fails.
C8_RejectsWrongLength ==
    call.op = "coordinates" =>
        \A n \in {"x", "y", "d"} \cap DOMAIN jwk :
            b64u_decodable(jwk[n].text) /\ Len(ParamBytes(n)) # coordinate_size(jwk)
            => ~call[n].ok

\* C9: the signing algorithms of an EC key are those of the curve of the key,
\* one per curve, and its key management algorithms are the four ECDH-ES ones
\* whatever the curve.
C9_SupportedAlgorithms ==
    call.op = "supported_algorithms" =>
        /\ jwk.crv = "P-256" => call.signing = <<"ES256">>
        /\ jwk.crv = "P-384" => call.signing = <<"ES384">>
        /\ jwk.crv = "P-521" => call.signing = <<"ES512">>
        /\ jwk.crv = "secp256k1" => call.signing = <<"ES256K">>
        /\ Range(call.key_management) =
               {"ECDH-ES", "ECDH-ES+A128KW", "ECDH-ES+A192KW", "ECDH-ES+A256KW"}

\* the algorithms of a secp256k1 key
C9_Witness ==
    /\ call.op = "supported_algorithms" /\ jwk.crv = "secp256k1"
    /\ call.signing = <<"ES256K">> /\ Len(call.key_management) = 4

\* C12: an unregistered or missing curve identifier fails with
\* UnsupportedEllipticCurve and yields no key: in generate, public, private and
\* get_curve ahead of any generation or encoding, and in the validation of a
\* parameter mapping ahead of the check of the other parameters.
C12_UnsupportedCurve ==
    /\ call.op \in {"ec_generate", "public", "private", "get_curve"}
           /\ call.crv \notin DOMAIN CURVES
       => call.res = Raise("UnsupportedEllipticCurve", call.crv)
    /\ call.op = "load" /\ Attr(call.params, "crv") \notin DOMAIN CURVES
       => call.res = Raise("UnsupportedEllipticCurve", Attr(call.params, "crv"))

\* a mapping with an unregistered curve and no coordinates, refused for its curve
C12_Witness ==
    /\ call.op = "load" /\ Attr(call.params, "crv") = "X-999"
    /\ "x" \notin DOMAIN call.params
    /\ call.res = Raise("UnsupportedEllipticCurve", "X-999")

====
